---- MODULE Spec2Model ----
(***************************************************************************)
(* Grant application lifecycle of intourcams.                              *)
(*                                                                         *)
(* The store is the Postgres schema of                                     *)
(* src/components/views/AIPlannerView.tsx (the SQL setup script): the      *)
(* grant_applications and notifications tables and the SECURITY DEFINER    *)
(* procedures submit_report .. admin_complete_application.  The client is  *)
(* src/components/AppContext.tsx calling src/services/supabase.ts.         *)
(*                                                                         *)
(* Left out of the rows: timestamps, message texts and project names       *)
(* (free text that no procedure branches on).                              *)
(***************************************************************************)
EXTENDS Integers, Sequences, FiniteSets

VARIABLES grant_applications, notifications, request, txns, lock,
          next_id, sessions, state_notifications,
          auth, state, pending, clusters, itineraries, storage,
          session, initialAuthCheckCompleted

vars == <<grant_applications, notifications, request, txns, lock,
          next_id, sessions, state_notifications,
          auth, state, pending, clusters, itineraries, storage,
          session, initialAuthCheckCompleted>>

\* one client's React state (auth, state), its awaited requests (pending),
\* and the tables and buckets of the store beside the grant tables
rest == <<auth, state, pending, clusters, itineraries, storage,
          session, initialAuthCheckCompleted>>

\* the state the grant procedures never touch: the uuid supply, the
\* setSiteBanner calls in flight and the clients' cached notifications
others == <<next_id, sessions, state_notifications, rest>>

----------------------------------------------------------------------------
(* Bounds *)

MaxNotifs == 3
MaxRaceCalls == 2

----------------------------------------------------------------------------
(* Accounts: public.users (id, role).  A user's name is modelled by its id. *)

Users == {"u1", "u2", "a1"}

\* two more staff accounts of public.users, used where the role decides
Accounts == Users \cup {"a2", "e1"}

Role == [u \in Accounts |->
            CASE u \in {"a1", "a2"} -> "Admin"
              [] u = "e1" -> "Editor"
              [] OTHER -> "Tourism Player"]

\* auth.currentUser = null
Guest == "guest"

\* public.is_admin_or_editor(): false without a signed-in account
is_admin_or_editor(u) == u # Guest /\ Role[u] \in {"Admin", "Editor"}

AppIds == {"GA1", "GA2"}
Amounts == {1, 2}
Notes == {"n1"}
ReportFileNames == {"f1"}

\* SQL NULL of a column: the empty sequence; a value v is <<v>>
NULL == <<>>
Some(v) == <<v>>
coalesce(x, d) == IF x = NULL THEN d ELSE x[1]
\* v_applicant_id::text when no row was selected
NullText == "NULL"

----------------------------------------------------------------------------
(* The client api methods that call a grant procedure *)

ApplicantOps == {"acceptConditionalOffer", "declineConditionalOffer",
                 "submitEarlyReport", "submitFinalReport"}
AdminOps == {"rejectPendingApplication", "makeConditionalOffer",
             "approveEarlyReportAndDisburse", "rejectEarlyReportSubmission",
             "rejectFinalReportSubmission", "completeGrantApplication"}
AmountOps == {"makeConditionalOffer", "approveEarlyReportAndDisburse",
              "completeGrantApplication"}
TransitionOps == ApplicantOps \cup AdminOps

\* one rpc call: method, auth.uid(), p_application_id and the amount argument
\* (NULL for the methods without one); p_notes and the report file are fixed
Call(op, caller, app, amount) ==
    [op |-> op, caller |-> caller, app |-> app, amount |-> amount]

Calls == {Call(op, u, id, Some(a)) : op \in AmountOps, u \in Users, id \in AppIds, a \in Amounts}
         \cup {Call(op, u, id, NULL) : op \in TransitionOps \ AmountOps, u \in Users, id \in AppIds}

p_notes == CHOOSE n \in Notes : TRUE
p_file_name == CHOOSE f \in ReportFileNames : TRUE

\* SET status = ... of each procedure's UPDATE
NewStatus(op) ==
    CASE op = "submitEarlyReport" -> "Early Report Submitted"
      [] op = "submitFinalReport" -> "Final Report Submitted"
      [] op = "acceptConditionalOffer" -> "Early Report Required"
      [] op = "declineConditionalOffer" -> "Rejected"
      [] op = "rejectPendingApplication" -> "Rejected"
      [] op = "makeConditionalOffer" -> "Conditional Offer"
      [] op = "approveEarlyReportAndDisburse" -> "Final Report Required"
      [] op = "rejectEarlyReportSubmission" -> "Early Report Required"
      [] op = "rejectFinalReportSubmission" -> "Final Report Required"
      [] op = "completeGrantApplication" -> "Complete"

HistoryStatus_Slip(op) ==
    IF op = "rejectEarlyReportSubmission" THEN "Rejected" ELSE NewStatus(op)

\* 'status' of the jsonb_build_object appended to status_history
HistoryStatus(op) ==
    CASE op = "submitEarlyReport" -> "Early Report Submitted"
      [] op = "submitFinalReport" -> "Final Report Submitted"
      [] op = "acceptConditionalOffer" -> "Early Report Required"
      [] op = "declineConditionalOffer" -> "Rejected"
      [] op = "rejectPendingApplication" -> "Rejected"
      [] op = "makeConditionalOffer" -> "Conditional Offer"
      [] op = "approveEarlyReportAndDisburse" -> "Final Report Required"
      [] op = "rejectEarlyReportSubmission" -> "Early Report Required"
      [] op = "rejectFinalReportSubmission" -> "Final Report Required"
      [] op = "completeGrantApplication" -> "Complete"

\* 'notes' of the appended object; a text concatenation is a sequence
HistoryNotes(op) ==
    CASE op = "submitEarlyReport" -> <<"Early report submitted by applicant.">>
      [] op = "submitFinalReport" -> <<"Final report submitted by applicant.">>
      [] op = "acceptConditionalOffer" -> <<"Applicant accepted the conditional offer.">>
      [] op = "declineConditionalOffer" -> <<"Applicant declined the conditional offer.">>
      [] op = "rejectEarlyReportSubmission" -> <<"Early report rejected. ", p_notes>>
      [] op = "rejectFinalReportSubmission" -> <<"Final report rejected. ", p_notes>>
      [] OTHER -> <<p_notes>>

AppendHistory_Overwrite(status_history, entry) == <<entry>>

\* status_history || jsonb_build_object(...)
AppendHistory(status_history, entry) == Append(status_history, entry)

\* the p_report_file built by submitReport
ReportFile(c) ==
    [path |-> <<c.caller, c.app, p_file_name>>, file_name |-> p_file_name]

\* SET notes = p_notes (the admin procedures only)
NotesColumn(row, c) ==
    IF c.op \in AdminOps THEN [row EXCEPT !.notes = Some(p_notes)] ELSE row

\* SET early_report_files = early_report_files || p_report_file, and final
ReportFileColumns(row, c) ==
    CASE c.op = "submitEarlyReport" ->
           [row EXCEPT !.early_report_files = Append(@, ReportFile(c))]
      [] c.op = "submitFinalReport" ->
           [row EXCEPT !.final_report_files = Append(@, ReportFile(c))]
      [] OTHER -> row

AmountColumns_ClearOnDecline(row, c) ==
    CASE c.op = "makeConditionalOffer" -> [row EXCEPT !.amount_approved = c.amount]
      [] c.op = "approveEarlyReportAndDisburse" ->
           [row EXCEPT !.initial_disbursement_amount = c.amount]
      [] c.op = "completeGrantApplication" ->
           [row EXCEPT !.final_disbursement_amount = c.amount]
      [] c.op = "declineConditionalOffer" -> [row EXCEPT !.amount_approved = NULL]
      [] OTHER -> row

\* SET amount_approved = p_amount_approved, initial_disbursement_amount =
\* p_disbursement_amount, final_disbursement_amount = p_final_disbursement_amount
AmountColumns(row, c) ==
    CASE c.op = "makeConditionalOffer" -> [row EXCEPT !.amount_approved = c.amount]
      [] c.op = "approveEarlyReportAndDisburse" ->
           [row EXCEPT !.initial_disbursement_amount = c.amount]
      [] c.op = "completeGrantApplication" ->
           [row EXCEPT !.final_disbursement_amount = c.amount]
      [] OTHER -> row

\* NULL + 1 is NULL
RejectionCounts_NoCoalesce(row, c) ==
    CASE c.op = "rejectEarlyReportSubmission" ->
           [row EXCEPT !.early_report_rejection_count =
                          IF @ = NULL THEN NULL ELSE Some(@[1] + 1)]
      [] c.op = "rejectFinalReportSubmission" ->
           [row EXCEPT !.final_report_rejection_count =
                          IF @ = NULL THEN NULL ELSE Some(@[1] + 1)]
      [] OTHER -> row

\* SET early_report_rejection_count = coalesce(early_report_rejection_count, 0) + 1,
\* and the same for final_report_rejection_count
RejectionCounts(row, c) ==
    CASE c.op = "rejectEarlyReportSubmission" ->
           [row EXCEPT !.early_report_rejection_count = Some(coalesce(@, 0) + 1)]
      [] c.op = "rejectFinalReportSubmission" ->
           [row EXCEPT !.final_report_rejection_count = Some(coalesce(@, 0) + 1)]
      [] OTHER -> row

\* The SET list of the procedure's single UPDATE, applied to the row it finds
UpdateSet(row, c, v_user_name) ==
    LET entry == [status |-> HistoryStatus(c.op), notes |-> HistoryNotes(c.op),
                  changed_by |-> v_user_name]
        base == [row EXCEPT !.status = NewStatus(c.op),
                            !.status_history = AppendHistory(@, entry)]
    IN RejectionCounts(AmountColumns(ReportFileColumns(NotesColumn(base, c), c), c), c)

\* The row each procedure inserts into notifications
NotificationRow_AllToAdmins(c, v_applicant_id) ==
    [recipient_id |-> "grant_admins",
     related_application_id |-> c.app,
     type |-> IF c.op \in {"submitEarlyReport", "submitFinalReport"}
              THEN "submission_confirm" ELSE "status_change"]

NotificationRow(c, v_applicant_id) ==
    [recipient_id |-> IF c.op \in ApplicantOps THEN "grant_admins" ELSE v_applicant_id,
     related_application_id |-> c.app,
     type |-> IF c.op \in {"submitEarlyReport", "submitFinalReport"}
              THEN "submission_confirm" ELSE "status_change"]

\* SELECT applicant_id ... INTO v_applicant_id ... WHERE id = p_application_id
SelectApplicant(table, id) ==
    IF id \in DOMAIN table THEN table[id].applicant_id ELSE NullText

\* UPDATE public.grant_applications SET ... WHERE id = p_application_id
UpdateWhere(table, c, v_user_name) ==
    [id \in DOMAIN table |->
        IF id = c.app THEN UpdateSet(table[id], c, v_user_name) ELSE table[id]]

----------------------------------------------------------------------------
(* The row the client inserts for a new application *)

NewApplication_EmptyHistory(applicant, from, count) ==
    [applicant_id |-> applicant,
     status |-> "Pending",
     status_history |-> << >>,
     notes |-> NULL,
     amount_approved |-> NULL,
     initial_disbursement_amount |-> NULL,
     final_disbursement_amount |-> NULL,
     early_report_files |-> <<>>,
     final_report_files |-> <<>>,
     early_report_rejection_count |-> NULL,
     final_report_rejection_count |-> NULL,
     resubmitted_from_id |-> from,
     resubmission_count |-> count]

NewApplication(applicant, from, count) ==
    [applicant_id |-> applicant,
     status |-> "Pending",
     status_history |-> <<[status |-> "Pending",
                           notes |-> IF from = NULL
                                     THEN <<"Application submitted by applicant.">>
                                     ELSE <<"Re-submitted from previous application ", from[1]>>,
                           changed_by |-> applicant]>>,
     notes |-> NULL,
     amount_approved |-> NULL,
     initial_disbursement_amount |-> NULL,
     final_disbursement_amount |-> NULL,
     early_report_files |-> <<>>,
     final_report_files |-> <<>>,
     early_report_rejection_count |-> NULL,
     final_report_rejection_count |-> NULL,
     resubmitted_from_id |-> from,
     resubmission_count |-> count]

\* insert into grant_applications: the primary key rejects a second row with
\* the same id, and the client does not look at the returned error
InsertApplication(table, id, row) ==
    IF id \in DOMAIN table THEN table
    ELSE [i \in DOMAIN table \cup {id} |-> IF i = id THEN row ELSE table[i]]

Idle == [pc |-> "idle"]
NoLock == "free"

NoSession == [pc |-> "idle"]

\* the part of the initial state outside the grant tables
\* useState(initialDataState): the collections and loading flags modelled
initialDataState ==
    [grantApplications |-> << >>,
     notifications |-> << >>,
     isLoadingGrantApplications |-> TRUE,
     isLoadingNotifications |-> TRUE]

\* a row of users, as the profile lookup returns it
Profile(u, n) == [id |-> u, name |-> n]

\* useState of auth
initialAuth ==
    [currentUser |-> NULL, isAuthenticated |-> FALSE,
     isInitializing |-> TRUE, isLoggingOut |-> FALSE]

InitRest ==
    /\ auth = initialAuth
    /\ state = initialDataState
    /\ pending = {}
    /\ clusters = << >>
    /\ itineraries = << >>
    /\ storage = {}
    /\ session = NULL
    /\ initialAuthCheckCompleted = FALSE

InitOthers ==
    /\ next_id = 1
    /\ sessions = [u \in Accounts |-> NoSession]
    /\ state_notifications = [u \in Accounts \cup {Guest} |-> << >>]
    /\ InitRest

Init ==
    /\ grant_applications = << >>
    /\ notifications = << >>
    /\ request = [op |-> "none"]
    /\ txns = [u \in Users |-> Idle]
    /\ lock = [id \in AppIds |-> NoLock]
    /\ InitOthers

----------------------------------------------------------------------------
(* Spec: every procedure call is one transaction, taken as one step *)

\* One rpc of a grant procedure: SELECT name, SELECT applicant_id,
\* UPDATE ... WHERE id = p_application_id, INSERT INTO notifications
RpcEffect(c) ==
    /\ LET v_user_name == c.caller
           v_applicant_id == SelectApplicant(grant_applications, c.app)
       IN /\ grant_applications' = UpdateWhere(grant_applications, c, v_user_name)
          /\ notifications' = Append(notifications, NotificationRow(c, v_applicant_id))
    /\ request' = c
    /\ UNCHANGED <<txns, lock>>
    /\ UNCHANGED others

Rpc(c) ==
    /\ Len(notifications) < MaxNotifs
    /\ RpcEffect(c)

\* the rows of grant_applications the RLS policies let account u select
CanSelectApplication(u, row) == Role[u] = "Admin" \/ row.applicant_id = u

addGrantApplication ==
    \E u \in Users \cup {Guest}, id \in AppIds :
        /\ Len(notifications) < MaxNotifs
        /\ IF u = Guest
           THEN \* if (!auth.currentUser) throw new Error("Authentication required.")
                UNCHANGED <<grant_applications, notifications>>
           ELSE /\ grant_applications' =
                     InsertApplication(grant_applications, id, NewApplication(u, NULL, 0))
                /\ notifications' = Append(notifications,
                     [recipient_id |-> "grant_admins", related_application_id |-> id,
                      type |-> "new_app"])
        /\ request' = Call("addGrantApplication", u, id, NULL)
        /\ UNCHANGED <<txns, lock>>
        /\ UNCHANGED others

reapplyForGrant ==
    \E u \in Users, newId \in AppIds, orig \in DOMAIN grant_applications :
        /\ Len(notifications) < MaxNotifs
        /\ CanSelectApplication(u, grant_applications[orig])
        /\ grant_applications' =
              InsertApplication(grant_applications, newId,
                  NewApplication(u, Some(orig),
                                 grant_applications[orig].resubmission_count + 1))
        /\ notifications' = Append(notifications,
              [recipient_id |-> "grant_admins", related_application_id |-> newId,
               type |-> "resubmission"])
        /\ request' = Call("reapplyForGrant", u, newId, NULL)
        /\ UNCHANGED <<txns, lock>>
        /\ UNCHANGED others

rejectPendingApplication ==
    \E u \in Users, id \in AppIds : Rpc(Call("rejectPendingApplication", u, id, NULL))

makeConditionalOffer ==
    \E u \in Users, id \in AppIds, a \in Amounts :
        Rpc(Call("makeConditionalOffer", u, id, Some(a)))

acceptConditionalOffer ==
    \E u \in Users, id \in AppIds : Rpc(Call("acceptConditionalOffer", u, id, NULL))

declineConditionalOffer ==
    \E u \in Users, id \in AppIds : Rpc(Call("declineConditionalOffer", u, id, NULL))

submitEarlyReport ==
    \E u \in Users, id \in AppIds : Rpc(Call("submitEarlyReport", u, id, NULL))

submitFinalReport ==
    \E u \in Users, id \in AppIds : Rpc(Call("submitFinalReport", u, id, NULL))

approveEarlyReportAndDisburse ==
    \E u \in Users, id \in AppIds, a \in Amounts :
        Rpc(Call("approveEarlyReportAndDisburse", u, id, Some(a)))

rejectEarlyReportSubmission ==
    \E u \in Users, id \in AppIds : Rpc(Call("rejectEarlyReportSubmission", u, id, NULL))

rejectFinalReportSubmission ==
    \E u \in Users, id \in AppIds : Rpc(Call("rejectFinalReportSubmission", u, id, NULL))

completeGrantApplication ==
    \E u \in Users, id \in AppIds, a \in Amounts :
        Rpc(Call("completeGrantApplication", u, id, Some(a)))

Next ==
    \/ addGrantApplication
    \/ reapplyForGrant
    \/ rejectPendingApplication
    \/ makeConditionalOffer
    \/ acceptConditionalOffer
    \/ declineConditionalOffer
    \/ submitEarlyReport
    \/ submitFinalReport
    \/ approveEarlyReportAndDisburse
    \/ rejectEarlyReportSubmission
    \/ rejectFinalReportSubmission
    \/ completeGrantApplication

Spec == Init /\ [][Next]_vars

----------------------------------------------------------------------------
(* SpecRace: the statements of concurrent procedure calls interleave.      *)
(* Each call is a READ COMMITTED transaction: its SELECTs, then its UPDATE *)
(* (which takes the row lock and evaluates the SET list on the current     *)
(* row), then its INSERT and commit, which releases the lock.              *)

InFlight == {u \in Users : txns[u].pc # "idle"}

StartedCalls == Len(notifications) - 1 + Cardinality(InFlight)

RowForUpdate_Stale(table, t) ==
    IF t.v_row = NULL THEN table[t.call.app] ELSE t.v_row[1]

\* the row version the UPDATE's SET expressions are evaluated on
RowForUpdate(table, t) == table[t.call.app]

InitRace ==
    /\ grant_applications =
          InsertApplication(<< >>, "GA1", NewApplication("u1", NULL, 0))
    /\ notifications = <<[recipient_id |-> "grant_admins",
                          related_application_id |-> "GA1", type |-> "new_app"]>>
    /\ request = Call("addGrantApplication", "u1", "GA1", NULL)
    /\ txns = [u \in Users |-> Idle]
    /\ lock = [id \in AppIds |-> NoLock]
    /\ InitOthers

\* the call arrives and runs its two SELECT ... INTO statements
TxnSelect ==
    \E c \in Calls :
        /\ txns[c.caller].pc = "idle"
        /\ StartedCalls < MaxRaceCalls
        /\ txns' = [txns EXCEPT ![c.caller] =
              [pc |-> "update", call |-> c, v_user_name |-> c.caller,
               v_applicant_id |-> SelectApplicant(grant_applications, c.app),
               v_row |-> IF c.app \in DOMAIN grant_applications
                         THEN Some(grant_applications[c.app]) ELSE NULL]]
        /\ UNCHANGED <<grant_applications, notifications, request, lock>>
        /\ UNCHANGED others

\* its UPDATE: waits while another transaction holds the row lock
TxnUpdate ==
    \E u \in Users :
        /\ txns[u].pc = "update"
        /\ LET t == txns[u] IN
           /\ lock[t.call.app] \in {NoLock, u}
           /\ IF t.call.app \in DOMAIN grant_applications
              THEN /\ grant_applications' =
                         [grant_applications EXCEPT ![t.call.app] =
                             UpdateSet(RowForUpdate(grant_applications, t),
                                       t.call, t.v_user_name)]
                   /\ lock' = [lock EXCEPT ![t.call.app] = u]
              ELSE UNCHANGED <<grant_applications, lock>>
        /\ txns' = [txns EXCEPT ![u].pc = "insert"]
        /\ UNCHANGED <<notifications, request>>
        /\ UNCHANGED others

\* its INSERT INTO notifications, and the commit
TxnInsert ==
    \E u \in Users :
        /\ txns[u].pc = "insert"
        /\ notifications' = Append(notifications,
              NotificationRow(txns[u].call, txns[u].v_applicant_id))
        /\ lock' = [id \in AppIds |-> IF lock[id] = u THEN NoLock ELSE lock[id]]
        /\ txns' = [txns EXCEPT ![u] = Idle]
        /\ UNCHANGED <<grant_applications, request>>
        /\ UNCHANGED others

NextRace == TxnSelect \/ TxnUpdate \/ TxnInsert

SpecRace == InitRace /\ [][NextRace]_vars

----------------------------------------------------------------------------
(* The grant procedures served from an application whose early report has
   been submitted: the application was submitted, offered, accepted and
   reported on by the calls the transition table intends. *)

MaxEarlyCalls == 2

\* the calls that bring application GA1 of applicant u to Early Report Submitted
EarlyPath(u, a) ==
    <<Call("makeConditionalOffer", "a1", "GA1", Some(a)),
      Call("acceptConditionalOffer", u, "GA1", NULL),
      Call("submitEarlyReport", u, "GA1", NULL)>>

RECURSIVE ServeAll(_, _)
\* the row after the UPDATEs of the calls cs, in order
ServeAll(row, cs) ==
    IF cs = << >> THEN row
    ELSE ServeAll(UpdateSet(row, Head(cs), Head(cs).caller), Tail(cs))

InitEarly ==
    \E u \in {"u1", "u2"}, a \in Amounts :
        /\ grant_applications =
              [id \in {"GA1"} |-> ServeAll(NewApplication(u, NULL, 0), EarlyPath(u, a))]
        /\ notifications =
              <<[recipient_id |-> "grant_admins", related_application_id |-> "GA1",
                 type |-> "new_app"]>>
              \o [i \in 1..3 |-> NotificationRow(EarlyPath(u, a)[i], u)]
        /\ request = EarlyPath(u, a)[3]
        /\ txns = [v \in Users |-> Idle]
        /\ lock = [id \in AppIds |-> NoLock]
        /\ InitOthers

\* any grant procedure called by any account, MaxEarlyCalls times at most
\* (InitEarly holds the 4 notifications of the path)
EarlyRpc ==
    \E c \in Calls :
        /\ Len(notifications) < 4 + MaxEarlyCalls
        /\ RpcEffect(c)

NextEarly == EarlyRpc

SpecEarly == InitEarly /\ [][NextEarly]_vars

----------------------------------------------------------------------------
(* setSiteBanner, statement by statement.  The three awaited requests of one
   call (select, delete, insert) are separate transactions; calls of
   different accounts interleave between them.  Here notifications is keyed
   by row id, since rows are deleted and a uuid is never handed out twice. *)

\* uuids handed out, the row present at the start included
MaxIds == 4

Messages == {"m1", "m2"}
\* expires_at: null or a timestamp
Expiries == {NULL, Some(1)}

\* the accounts that call setSiteBanner
BannerCallers == {"u1", "a1", "e1"}

\* .select('id').eq('recipient_id', 'global_banner'); the SELECT policy shows
\* every banner to everyone
SelectBannerIds_First(table) ==
    LET all == {id \in DOMAIN table : table[id].recipient_id = "global_banner"}
    IN IF all = {} THEN {} ELSE {CHOOSE id \in all : \A j \in all : id <= j}

SelectBannerIds(table) ==
    {id \in DOMAIN table : table[id].recipient_id = "global_banner"}

\* DELETE policy of notifications
CanDeleteNotification(u, row) ==
    row.recipient_id = "global_banner" /\ is_admin_or_editor(u)

\* .delete().in('id', ids) as account u: the rows the policy hides from the
\* statement stay, and that is no error
DeleteIn(table, ids, u) ==
    LET gone == {id \in DOMAIN table : id \in ids /\ CanDeleteNotification(u, table[id])}
    IN [id \in DOMAIN table \ gone |-> table[id]]

\* INSERT policy of notifications: auth.role() = 'authenticated'
CanInsertNotification(u) == u # Guest

\* .insert(row) as account u
InsertNotification(table, id, row, u) ==
    IF CanInsertNotification(u)
    THEN [i \in DOMAIN table \cup {id} |-> IF i = id THEN row ELSE table[i]]
    ELSE table

\* newBanner
NewBanner(message, expires_at) ==
    [recipient_id |-> "global_banner", message |-> message,
     type |-> "status_change", expires_at |-> expires_at]

\* the setSiteBanner calls between their first and their last request
BannerInFlight == {u \in Accounts : sessions[u].pc \in {"delete", "insert"}}

\* one application has been submitted; nobody has set a banner yet
InitBanner ==
    /\ grant_applications = [id \in {"GA1"} |-> NewApplication("u1", NULL, 0)]
    /\ notifications =
          <<[recipient_id |-> "grant_admins", related_application_id |-> "GA1",
             type |-> "new_app"]>>
    /\ request = Call("addGrantApplication", "u1", "GA1", NULL)
    /\ txns = [u \in Users |-> Idle]
    /\ lock = [id \in AppIds |-> NoLock]
    /\ next_id = 2
    /\ sessions = [u \in Accounts |-> NoSession]
    /\ state_notifications = [u \in Accounts \cup {Guest} |-> << >>]
    /\ InitRest

\* the first request: the ids of the banners to delete.  A call records in
\* overlapped whether another call was in flight at any time during it.
BannerSelect ==
    \E u \in BannerCallers, m \in Messages, e \in Expiries :
        /\ sessions[u].pc \in {"idle", "done"}
        /\ (next_id - 1) + Cardinality(BannerInFlight) < MaxIds
        /\ LET ids == SelectBannerIds(notifications)
           IN sessions' =
                [v \in Accounts |->
                   IF v = u
                   THEN [pc |-> IF ids # {} THEN "delete" ELSE "insert",
                         ids |-> ids, message |-> m, expires_at |-> e,
                         overlapped |-> BannerInFlight # {}]
                   ELSE IF v \in BannerInFlight
                        THEN [sessions[v] EXCEPT !.overlapped = TRUE]
                        ELSE sessions[v]]
        /\ UNCHANGED <<grant_applications, notifications, request, txns, lock,
                       next_id, state_notifications>>
        /\ UNCHANGED rest

\* the second request, made when the first returned at least one id
BannerDelete ==
    \E u \in BannerCallers :
        /\ sessions[u].pc = "delete"
        /\ notifications' = DeleteIn(notifications, sessions[u].ids, u)
        /\ sessions' = [sessions EXCEPT ![u].pc = "insert"]
        /\ UNCHANGED <<grant_applications, request, txns, lock,
                       next_id, state_notifications>>
        /\ UNCHANGED rest

\* the third request; its error is not looked at and the call returns
BannerInsert ==
    \E u \in BannerCallers :
        /\ sessions[u].pc = "insert"
        /\ notifications' =
              InsertNotification(notifications, next_id,
                  NewBanner(sessions[u].message, sessions[u].expires_at), u)
        /\ next_id' = next_id + 1
        /\ sessions' = [sessions EXCEPT ![u] = [pc |-> "done"]]
        /\ request' = [op |-> "setSiteBanner", caller |-> u]
        /\ UNCHANGED <<grant_applications, txns, lock, state_notifications>>
        /\ UNCHANGED rest

NextBanner == BannerSelect \/ BannerDelete \/ BannerInsert

SpecBanner == InitBanner /\ [][NextBanner]_vars

----------------------------------------------------------------------------
(* sendGlobalPanelNotification: the rpc send_notification_to_all_users.  The
   procedure is one transaction; request records the call and the error of
   its response. *)

\* calls of the procedure that find fewer than this many broadcasts stored
MaxBroadcasts == 4

RECURSIVE SeqOf(_)
\* SELECT id FROM public.users, in the order the loop visits the rows
SeqOf(S) ==
    IF S = {} THEN << >>
    ELSE LET x == CHOOSE y \in S : TRUE IN <<x>> \o SeqOf(S \ {x})

BroadcastRows_Shared(p_message) ==
    <<[recipient_id |-> "admins", message |-> p_message, type |-> "status_change"]>>

\* the rows of the FOR user_record IN SELECT id FROM public.users LOOP
BroadcastRows(p_message) ==
    [i \in 1..Cardinality(Accounts) |->
        [recipient_id |-> SeqOf(Accounts)[i], message |-> p_message,
         type |-> "status_change"]]

send_notification_to_all_users_Unguarded(table, u, p_message) ==
    [table |-> table \o BroadcastRows(p_message), error |-> NULL]

\* the table after the procedure called as account u, and the error raised
send_notification_to_all_users(table, u, p_message) ==
    IF is_admin_or_editor(u)
    THEN [table |-> table \o BroadcastRows(p_message), error |-> NULL]
    ELSE [table |-> table,
          error |-> Some("Only Admins or Editors can send notifications to all users.")]

InitBroadcast == InitBanner

\* the client wrapper around the rpc: the awaited builder resolves to
\* { data, error } and never throws, so whatever error the response carries
\* the try block runs on to its success toast and the catch block is skipped
AwaitGlobalPanelNotification(error) ==
    [toast |-> "success", threw |-> FALSE]

sendGlobalPanelNotification ==
    \E u \in Accounts \cup {Guest}, m \in Messages :
        /\ Len(notifications) <= MaxBroadcasts * Cardinality(Accounts)
        /\ LET r == send_notification_to_all_users(notifications, u, m)
           IN /\ notifications' = r.table
              /\ request' = [op |-> "sendGlobalPanelNotification", caller |-> u,
                             message |-> m, error |-> r.error,
                             toast |-> AwaitGlobalPanelNotification(r.error).toast,
                             threw |-> AwaitGlobalPanelNotification(r.error).threw]
        /\ UNCHANGED <<grant_applications, txns, lock>>
        /\ UNCHANGED others

NextBroadcast == sendGlobalPanelNotification

SpecBroadcast == InitBroadcast /\ [][NextBroadcast]_vars

----------------------------------------------------------------------------
(* The notification panel.  state_notifications[u] is state.notifications of
   the client signed in as u: the rows its last fetch returned, by id.  The
   arrays read_by and cleared_by are modelled by the set of their elements;
   a null array is the empty set. *)

\* SELECT policies of notifications
CanSelectNotification(u, row) ==
    \/ row.recipient_id = "global_banner"
    \/ u # Guest /\ row.recipient_id = u
    \/ row.recipient_id = "admins" /\ is_admin_or_editor(u)
    \/ row.recipient_id = "grant_admins" /\ u # Guest /\ Role[u] = "Admin"

\* UPDATE policy of notifications
CanUpdateNotification(u, row) ==
    \/ u # Guest /\ row.recipient_id = u
    \/ row.recipient_id = "admins" /\ is_admin_or_editor(u)
    \/ row.recipient_id = "grant_admins" /\ u # Guest /\ Role[u] = "Admin"
    \/ row.recipient_id = "global_banner" /\ u # Guest

\* api.fetchNotifications() as account u
SelectNotifications(table, u) ==
    [id \in {i \in DOMAIN table : CanSelectNotification(u, table[i])} |-> table[id]]

getNotificationsForCurrentUser_KeepCleared(u) ==
    IF u = Guest THEN {}
    ELSE {id \in DOMAIN state_notifications[u] :
            LET n == state_notifications[u][id]
            IN IF n.recipient_id = u THEN TRUE
               ELSE IF Role[u] \in {"Admin", "Editor"} /\ n.recipient_id = "admins" THEN TRUE
               ELSE IF Role[u] = "Admin" /\ n.recipient_id = "grant_admins" THEN TRUE
               ELSE FALSE}

\* the ids of the cached notifications the filter keeps
getNotificationsForCurrentUser(u) ==
    IF u = Guest THEN {}
    ELSE {id \in DOMAIN state_notifications[u] :
            LET n == state_notifications[u][id]
            IN IF u \in n.cleared_by THEN FALSE
               ELSE IF n.recipient_id = u THEN TRUE
               ELSE IF Role[u] \in {"Admin", "Editor"} /\ n.recipient_id = "admins" THEN TRUE
               ELSE IF Role[u] = "Admin" /\ n.recipient_id = "grant_admins" THEN TRUE
               ELSE FALSE}

\* .update({ read_by: newReadBy }).eq('id', id) as account u
UpdateReadBy(table, id, newReadBy, u) ==
    [i \in DOMAIN table |->
        IF i = id /\ CanUpdateNotification(u, table[i])
        THEN [table[i] EXCEPT !.read_by = newReadBy]
        ELSE table[i]]

\* mark_notifications_cleared_by_user(p_notification_ids) with auth.uid() = u
mark_notifications_cleared_by_user(table, p_notification_ids, u) ==
    IF u = Guest THEN table
    ELSE [i \in DOMAIN table |->
            IF i \in p_notification_ids /\ u \notin table[i].cleared_by
            THEN [table[i] EXCEPT !.cleared_by = @ \cup {u}]
            ELSE table[i]]

\* a notifications row as the table holds it after its INSERT
Stored(row) == [recipient_id |-> row.recipient_id, type |-> row.type,
                read_by |-> {}, cleared_by |-> {}]

fetchNotifications(u) ==
    /\ state_notifications' =
          [state_notifications EXCEPT ![u] = SelectNotifications(notifications, u)]
    /\ request' = [op |-> "fetchNotifications", caller |-> u]
    /\ UNCHANGED <<grant_applications, notifications, txns, lock, next_id, sessions>>
    /\ UNCHANGED rest

\* the notification is one the panel shows, taken from the cache
markNotificationAsRead(u) ==
    \E id \in getNotificationsForCurrentUser(u) :
        LET notification == state_notifications[u][id]
            newReadBy == notification.read_by \cup {u}
        IN /\ notifications' = UpdateReadBy(notifications, id, newReadBy, u)
           /\ request' = [op |-> "markNotificationAsRead", caller |-> u]
           /\ UNCHANGED <<grant_applications, txns, lock, next_id, sessions,
                          state_notifications>>
           /\ UNCHANGED rest

RECURSIVE MarkEach(_, _, _)
\* unread.forEach(markNotificationAsRead): one update per unread notification
MarkEach(table, unread, u) ==
    IF unread = {} THEN table
    ELSE LET id == CHOOSE i \in unread : TRUE
         IN MarkEach(UpdateReadBy(table, id, state_notifications[u][id].read_by \cup {u}, u),
                     unread \ {id}, u)

markAllNotificationsAsRead(u) ==
    LET unread == {id \in getNotificationsForCurrentUser(u) :
                     u \notin state_notifications[u][id].read_by}
    IN /\ unread # {}
       /\ notifications' = MarkEach(notifications, unread, u)
       /\ request' = [op |-> "markAllNotificationsAsRead", caller |-> u]
       /\ UNCHANGED <<grant_applications, txns, lock, next_id, sessions,
                      state_notifications>>
       /\ UNCHANGED rest

\* the rpc, then the forced re-fetch
clearAllNotifications(u) ==
    LET notificationsToClear == getNotificationsForCurrentUser(u)
    IN /\ notificationsToClear # {}
       /\ notifications' =
             mark_notifications_cleared_by_user(notifications, notificationsToClear, u)
       /\ state_notifications' =
             [state_notifications EXCEPT ![u] = SelectNotifications(notifications', u)]
       /\ request' = [op |-> "clearAllNotifications", caller |-> u]
       /\ UNCHANGED <<grant_applications, txns, lock, next_id, sessions>>
       /\ UNCHANGED rest

\* the accounts with a client open on the panel
NotifClients == {"u1", "a1", "a2"}

\* u1 has submitted GA1, Admin a1 has rejected it and set a banner
InitNotif ==
    /\ grant_applications =
          [id \in {"GA1"} |->
              UpdateSet(NewApplication("u1", NULL, 0),
                        Call("rejectPendingApplication", "a1", "GA1", NULL), "a1")]
    /\ notifications =
          <<Stored([recipient_id |-> "grant_admins", type |-> "new_app"]),
            Stored(NotificationRow(Call("rejectPendingApplication", "a1", "GA1", NULL), "u1")),
            Stored(NewBanner("m1", NULL))>>
    /\ request = [op |-> "setSiteBanner", caller |-> "a1"]
    /\ txns = [u \in Users |-> Idle]
    /\ lock = [id \in AppIds |-> NoLock]
    /\ next_id = 4
    /\ sessions = [u \in Accounts |-> NoSession]
    /\ state_notifications = [u \in Accounts \cup {Guest} |-> << >>]
    /\ InitRest

NextNotif ==
    \E u \in NotifClients :
        \/ fetchNotifications(u)
        \/ markNotificationAsRead(u)
        \/ markAllNotificationsAsRead(u)
        \/ clearAllNotifications(u)

SpecNotif == InitNotif /\ [][NextNotif]_vars

(* getNotificationsForCurrentUser over caches that hold every kind of
   recipient: the table has one notification addressed to each class and to
   one account, and the clients fetch and clear. *)

PanelClients == {"u1", "a1", "e1", Guest}

InitPanel ==
    /\ grant_applications = [id \in {"GA1"} |-> NewApplication("u1", NULL, 0)]
    /\ notifications =
          <<Stored([recipient_id |-> "grant_admins", type |-> "new_app"]),
            Stored([recipient_id |-> "admins", type |-> "status_change"]),
            Stored([recipient_id |-> "u1", type |-> "status_change"]),
            Stored(NewBanner("m1", NULL))>>
    /\ request = [op |-> "setSiteBanner", caller |-> "a1"]
    /\ txns = [u \in Users |-> Idle]
    /\ lock = [id \in AppIds |-> NoLock]
    /\ next_id = 5
    /\ sessions = [u \in Accounts |-> NoSession]
    /\ state_notifications = [u \in Accounts \cup {Guest} |-> << >>]
    /\ InitRest

NextPanel ==
    \E u \in PanelClients :
        \/ fetchNotifications(u)
        \/ clearAllNotifications(u)

SpecPanel == InitPanel /\ [][NextPanel]_vars

----------------------------------------------------------------------------
(* submitReport of the client: the upload to the report bucket, then the rpc
   submit_report.  storage is the set of stored objects, each a bucket and a
   path; a path is the sequence of its segments.  The Date.now() prefix of
   the last segment is left out of both the recorded and the stored path. *)

\* submitReport calls served
MaxReports == 2

\* bucket of submitReport
ReportBucket(op) ==
    IF op = "submitEarlyReport" THEN "grant-early-report-files"
    ELSE "grant-final-report-files"

\* file.name.replace(/[^a-zA-Z0-9.\-_]/g, ''): "f 1" loses its blank, a name
\* of allowed characters is kept
Sanitise(name) == CASE name = "f 1" -> "f1" [] OTHER -> name

\* filePath of api.uploadFile: `${userId}/${Date.now()}-${sanitised name}`
UploadPath(userId, name) == <<userId, Sanitise(name)>>

\* GA1 of applicant u has been offered and accepted
InitReport ==
    \E u \in {"u1", "u2"}, a \in Amounts :
        /\ grant_applications =
              [id \in {"GA1"} |->
                  ServeAll(NewApplication(u, NULL, 0), SubSeq(EarlyPath(u, a), 1, 2))]
        /\ notifications =
              <<[recipient_id |-> "grant_admins", related_application_id |-> "GA1",
                 type |-> "new_app"]>>
              \o [i \in 1..2 |-> NotificationRow(EarlyPath(u, a)[i], u)]
        /\ request = EarlyPath(u, a)[2]
        /\ txns = [v \in Users |-> Idle]
        /\ lock = [id \in AppIds |-> NoLock]
        /\ InitOthers

\* uploaded says whether storage accepted the upload; when it did not,
\* api.uploadFile throws and the rpc is not called
submitReport ==
    \E u \in Users \cup {Guest}, id \in AppIds, uploaded \in BOOLEAN,
       op \in {"submitEarlyReport", "submitFinalReport"} :
        LET c == Call(op, u, id, NULL)
        IN /\ Len(notifications) < 3 + MaxReports
           /\ IF u = Guest \/ ~uploaded
              THEN /\ UNCHANGED <<grant_applications, notifications, storage>>
                   /\ request' = [c EXCEPT !.op = "submitReport"]
              ELSE /\ storage' = storage \cup
                         {[bucket |-> ReportBucket(op), path |-> UploadPath(u, p_file_name)]}
                   /\ grant_applications' = UpdateWhere(grant_applications, c, u)
                   /\ notifications' = Append(notifications,
                         NotificationRow(c, SelectApplicant(grant_applications, id)))
                   /\ request' = c
           /\ UNCHANGED <<txns, lock, next_id, sessions, state_notifications,
                          auth, session, initialAuthCheckCompleted, state, pending, clusters, itineraries>>

NextReport == submitReport

SpecReport == InitReport /\ [][NextReport]_vars

----------------------------------------------------------------------------
(* api.findOrCreateItinerary, request by request.  itineraries is keyed by
   row id; pending holds the calls whose select found no row and whose
   insert has not been sent yet. *)

\* the client operations that call findOrCreateItinerary
ItineraryOps == {"fetchMyItinerary", "addItineraryItem", "clearMyItinerary"}

ItineraryUsers == {"u1", "u2"}

\* .select('id').eq('user_id', userId): the rows .limit(1).single() picks from
SelectItineraries(table, userId) ==
    {id \in DOMAIN table : table[id].user_id = userId}

InitItinerary == Init

\* the select; with a row found the call returns its id, and with several
\* rows any of them, since the query has no ORDER BY
ItinerarySelect ==
    \E u \in ItineraryUsers, op \in ItineraryOps :
        LET found == SelectItineraries(itineraries, u)
            call == [op |-> op, user |-> u]
        IN /\ call \notin pending
           /\ IF found # {}
              THEN /\ \E id \in found :
                        request' = [op |-> op, caller |-> u, itineraryId |-> id]
                   /\ UNCHANGED pending
              ELSE /\ pending' = pending \cup {call}
                   /\ UNCHANGED request
           /\ UNCHANGED <<grant_applications, notifications, txns, lock, next_id,
                          sessions, state_notifications, auth, session, initialAuthCheckCompleted, state, clusters,
                          itineraries, storage>>

\* .insert({ user_id, name }).select().single(): the table has no constraint
\* on user_id, so the insert succeeds and the call returns the new id
ItineraryInsert ==
    \E call \in pending :
        /\ itineraries' =
              [id \in DOMAIN itineraries \cup {next_id} |->
                  IF id = next_id THEN [user_id |-> call.user, name |-> "My Itinerary"]
                  ELSE itineraries[id]]
        /\ next_id' = next_id + 1
        /\ pending' = pending \ {call}
        /\ request' = [op |-> call.op, caller |-> call.user, itineraryId |-> next_id]
        /\ UNCHANGED <<grant_applications, notifications, txns, lock,
                       sessions, state_notifications, auth, session, initialAuthCheckCompleted, state, clusters, storage>>

NextItinerary == ItinerarySelect \/ ItineraryInsert

SpecItinerary == InitItinerary /\ [][NextItinerary]_vars

----------------------------------------------------------------------------
(* addCluster and deleteCluster of the client.  clusters is keyed by cluster
   id; a cluster's image, when it has one, is an object of the bucket
   cluster-images stored under the owner's folder. *)

ClusterIds == {"c1", "c2"}

\* the image of cluster id uploaded by account u
ClusterImage(u, id) == [bucket |-> "cluster-images", path |-> <<u, id>>]

\* policy "Admins, Editors, or owners can update/delete clusters"
CanDeleteCluster(u, row) == is_admin_or_editor(u) \/ row.owner_id = u

\* .delete().eq('id', id) as account u: a row the policy hides stays, and
\* that is no error
DeleteCluster(table, id, u) ==
    [i \in {j \in DOMAIN table : ~(j = id /\ CanDeleteCluster(u, table[j]))} |-> table[i]]

deleteFile_Rethrow(objects, object, failed) ==
    [storage |-> IF failed THEN objects ELSE objects \ {object},
     toast |-> IF failed THEN "error" ELSE "none",
     threw |-> failed]

\* the deleteFile wrapper: api.deleteFile throws when storage refuses the
\* removal (failed); the wrapper hands the error to handleError, which logs
\* it and shows the error toast, and does not throw it on
deleteFile(objects, object, failed) ==
    [storage |-> IF failed THEN objects ELSE objects \ {object},
     toast |-> IF failed THEN "error" ELSE "none",
     threw |-> FALSE]

InitCluster == Init

\* the cluster row is inserted with owner_id = the caller, after the image,
\* if any, was uploaded
addCluster ==
    \E u \in Users, id \in ClusterIds \ DOMAIN clusters, withImage \in BOOLEAN :
        /\ clusters' =
              [i \in DOMAIN clusters \cup {id} |->
                  IF i = id
                  THEN [owner_id |-> u,
                        image |-> IF withImage THEN Some(ClusterImage(u, id)) ELSE NULL]
                  ELSE clusters[i]]
        /\ storage' = IF withImage THEN storage \cup {ClusterImage(u, id)} ELSE storage
        /\ request' = [op |-> "addCluster", caller |-> u, cluster |-> id]
        /\ UNCHANGED <<grant_applications, notifications, txns, lock, next_id,
                       sessions, state_notifications, auth, session, initialAuthCheckCompleted, state, pending, itineraries>>

\* the row delete, then the image delete when the cluster known to the
\* client has an image; failed says whether storage refuses the removal
deleteCluster ==
    \E u \in Users, id \in DOMAIN clusters, failed \in BOOLEAN :
        LET clusterToDelete == clusters[id]
            hasImage == clusterToDelete.image # NULL
            r == IF hasImage
                 THEN deleteFile(storage, clusterToDelete.image[1], failed)
                 ELSE [storage |-> storage, toast |-> "none", threw |-> FALSE]
        IN /\ hasImage \/ ~failed
           /\ clusters' = DeleteCluster(clusters, id, u)
           /\ storage' = r.storage
           /\ request' = [op |-> "deleteCluster", caller |-> u, cluster |-> id,
                          imageFailed |-> failed, toast |-> r.toast,
                          result |-> ~r.threw]
           /\ UNCHANGED <<grant_applications, notifications, txns, lock, next_id,
                          sessions, state_notifications, auth, session, initialAuthCheckCompleted, state, pending, itineraries>>

NextCluster == addCluster \/ deleteCluster

SpecCluster == InitCluster /\ [][NextCluster]_vars

----------------------------------------------------------------------------
(* The fetches of one client.  A fetch is sent with the session it was
   issued under, is served by the store at some later moment, and settles in
   the client when its response arrives; responses arrive in any order.
   pending holds every fetch issued, with its position: sent, served or
   settled.  next_id numbers the fetches in the order they were issued. *)

\* the collections of the client state followed here
Collections == {"grantApplications", "notifications"}

\* the loading flag of a collection
LoadingFlag(k) ==
    IF k = "grantApplications" THEN "isLoadingGrantApplications"
    ELSE "isLoadingNotifications"

\* what the store returns for a fetch of collection k under the session of u
FetchResult(k, u) ==
    IF k = "notifications" THEN SelectNotifications(notifications, u)
    ELSE IF u = Guest THEN << >>
    ELSE [id \in {i \in DOMAIN grant_applications :
                     CanSelectApplication(u, grant_applications[i])} |->
             grant_applications[id]]

\* a fetch of collection k, the n-th issued, sent under the session of u
Fetch(k, u, n) ==
    [seq |-> n, collection |-> k, user |-> u, pc |-> "sent", ok |-> TRUE, data |-> << >>]

\* fetchAllData: both fetches are sent, each after raising its loading flag
fetchAllData(u, n) ==
    {Fetch("grantApplications", u, n), Fetch("notifications", u, n + 1)}

\* Admin a1 has just signed in on a store that holds u1's application GA1
InitFetch ==
    /\ grant_applications = [id \in {"GA1"} |-> NewApplication("u1", NULL, 0)]
    /\ notifications =
          <<[recipient_id |-> "grant_admins", related_application_id |-> "GA1",
             type |-> "new_app"]>>
    /\ request = Call("addGrantApplication", "u1", "GA1", NULL)
    /\ txns = [u \in Users |-> Idle]
    /\ lock = [id \in AppIds |-> NoLock]
    /\ next_id = 3
    /\ sessions = [u \in Accounts |-> NoSession]
    /\ state_notifications = [u \in Accounts \cup {Guest} |-> << >>]
    /\ auth = [currentUser |-> Some(Profile("a1", "n0")), isAuthenticated |-> TRUE,
               isInitializing |-> FALSE, isLoggingOut |-> FALSE]
    /\ state = initialDataState
    /\ pending = fetchAllData("a1", 1)
    /\ clusters = << >>
    /\ itineraries = << >>
    /\ storage = {}
    /\ session = Some("a1")
    /\ initialAuthCheckCompleted = TRUE

\* the session a request of the client is sent under
CurrentSession == IF session = NULL THEN Guest ELSE session[1]

\* another client submits application GA2; the change events of both tables
\* reach handleDbChange, which issues a refetch of each collection
StoreChange ==
    \E u \in {"u2"} :
        /\ "GA2" \notin DOMAIN grant_applications
        /\ grant_applications' =
              InsertApplication(grant_applications, "GA2", NewApplication(u, NULL, 0))
        /\ notifications' = Append(notifications,
              [recipient_id |-> "grant_admins", related_application_id |-> "GA2",
               type |-> "new_app"])
        /\ request' = Call("addGrantApplication", u, "GA2", NULL)
        /\ pending' = pending \cup fetchAllData(CurrentSession, next_id)
        /\ next_id' = next_id + 2
        /\ state' = [state EXCEPT !.isLoadingGrantApplications = TRUE,
                                  !.isLoadingNotifications = TRUE]
        /\ UNCHANGED <<txns, lock, sessions, state_notifications, auth, session, initialAuthCheckCompleted,
                       clusters, itineraries, storage>>

\* the store answers a fetch: with the rows the sender's session may see, or
\* with an error
FetchServe ==
    \E f \in pending, ok \in BOOLEAN :
        /\ f.pc = "sent"
        /\ pending' = (pending \ {f}) \cup
              {[f EXCEPT !.pc = "served", !.ok = ok,
                         !.data = IF ok THEN FetchResult(f.collection, f.user) ELSE << >>]}
        /\ UNCHANGED <<grant_applications, notifications, request, txns, lock, next_id,
                       sessions, state_notifications, auth, session, initialAuthCheckCompleted, state,
                       clusters, itineraries, storage>>

\* the response arrives: try { setState(collection: data) } catch
\* { handleError } finally { setState(isLoading: false) }
FetchSettle ==
    \E f \in pending :
        /\ f.pc = "served"
        /\ pending' = (pending \ {f}) \cup {[f EXCEPT !.pc = "settled"]}
        /\ state' = IF f.ok
                     THEN [state EXCEPT ![f.collection] = f.data,
                                        ![LoadingFlag(f.collection)] = FALSE]
                     ELSE [state EXCEPT ![LoadingFlag(f.collection)] = FALSE]
        /\ request' = [op |-> "fetch", collection |-> f.collection, seq |-> f.seq,
                       toast |-> IF f.ok THEN "none" ELSE "error"]
        /\ UNCHANGED <<grant_applications, notifications, txns, lock, next_id,
                       sessions, state_notifications, auth, session, initialAuthCheckCompleted,
                       clusters, itineraries, storage>>

\* the session ends and onAuthStateChange runs without a session: auth
\* becomes the guest's, the data state is reset, and fetchAllData(null)
\* fetches the public data
SignedOut ==
    /\ session # NULL
    /\ session' = NULL
    /\ initialAuthCheckCompleted' = FALSE
    /\ auth' = [currentUser |-> NULL, isAuthenticated |-> FALSE,
                isInitializing |-> FALSE, isLoggingOut |-> FALSE]
    /\ state' = initialDataState
    /\ pending' = pending \cup fetchAllData(Guest, next_id)
    /\ next_id' = next_id + 2
    /\ request' = [op |-> "SIGNED_OUT"]
    /\ UNCHANGED <<grant_applications, notifications, txns, lock,
                   sessions, state_notifications, clusters, itineraries, storage>>

NextFetch == StoreChange \/ FetchServe \/ FetchSettle \/ SignedOut

SpecFetch == InitFetch /\ [][NextFetch]_vars

----------------------------------------------------------------------------
(* The auth state of one client.  session is the session the auth library
   holds; every change of it reaches the onAuthStateChange handler as an
   event.  pending holds the events not yet handled, the handlers stopped at
   an await and the client's calls in flight; whatever is in pending may
   take its next step in any order.  The data fetches the handler starts
   write state only and are followed in SpecFetch. *)

\* the account that uses this client, and the names it may choose
AuthUser == "u1"
Names == {"n1"}

\* the store and the parts of the client the auth handlers never touch
data == <<grant_applications, notifications, txns, lock, next_id, sessions,
          state_notifications, state, clusters, itineraries, storage>>

\* a call or handler in flight: what it is, the await it is stopped at, the
\* session of the event it handles, and whether auth.currentUser was set in
\* the closure the call was made from
Awaiting(op, pc, s, hadUser) == [op |-> op, pc |-> pc, session |-> s, hadUser |-> hadUser]

\* an auth event waiting for the handler
AuthEvent(s) == Awaiting("onAuthStateChange", "start", s, FALSE)

guestAuth ==
    [currentUser |-> NULL, isAuthenticated |-> FALSE,
     isInitializing |-> FALSE, isLoggingOut |-> FALSE]

\* the page loads with or without a stored session; the library reports it
InitAuth ==
    /\ grant_applications = << >>
    /\ notifications = << >>
    /\ request = [op |-> "none"]
    /\ txns = [u \in Users |-> Idle]
    /\ lock = [id \in AppIds |-> NoLock]
    /\ next_id = 1
    /\ sessions = [u \in Accounts |-> NoSession]
    /\ state_notifications = [u \in Accounts \cup {Guest} |-> << >>]
    /\ auth = initialAuth
    /\ state = initialDataState
    /\ clusters = << >>
    /\ itineraries = << >>
    /\ storage = {}
    /\ session \in {NULL, Some(AuthUser)}
    /\ pending = {AuthEvent(session)}
    /\ initialAuthCheckCompleted = FALSE

\* App.tsx shows the full-screen loader and nothing else while either flag is set
FullScreenLoader == auth.isInitializing \/ auth.isLoggingOut

\* supabase.auth.signOut() resolving for the call or handler f: without an
\* error the session is removed and SIGNED_OUT is emitted; with an error
\* nothing changes.  The promise does not reject.
signOut(f, ok) ==
    /\ session' = IF ok THEN NULL ELSE session
    /\ pending' = (pending \ {f}) \cup (IF ok THEN {AuthEvent(NULL)} ELSE {})

\* loginUserWithPassword from the login view
loginUserWithPassword ==
    \E ok \in BOOLEAN :
        /\ ~FullScreenLoader
        /\ ~auth.isAuthenticated
        /\ session = NULL
        /\ session' = IF ok THEN Some(AuthUser) ELSE session
        /\ pending' = pending \cup (IF ok THEN {AuthEvent(Some(AuthUser))} ELSE {})
        /\ request' = [op |-> "loginUserWithPassword", threw |-> ~ok]
        /\ UNCHANGED <<auth, initialAuthCheckCompleted, data>>

\* the library refreshes the token of the session and reports it
TokenRefreshed ==
    /\ session # NULL
    /\ AuthEvent(session) \notin pending
    /\ pending' = pending \cup {AuthEvent(session)}
    /\ request' = [op |-> "TOKEN_REFRESHED"]
    /\ UNCHANGED <<auth, session, initialAuthCheckCompleted, data>>

\* the handler starts on an event, up to its first await or its end
HandleAuthChange ==
    \E f \in pending :
        /\ f.op = "onAuthStateChange" /\ f.pc = "start"
        /\ request' = [op |-> "onAuthStateChange", session |-> f.session]
        /\ IF f.session # NULL
           THEN IF initialAuthCheckCompleted /\ auth.currentUser # NULL
                THEN /\ pending' = (pending \ {f}) \cup {[f EXCEPT !.pc = "refresh"]}
                     /\ UNCHANGED <<auth, initialAuthCheckCompleted>>
                ELSE /\ auth' = [auth EXCEPT !.isInitializing = TRUE]
                     /\ pending' = (pending \ {f}) \cup {[f EXCEPT !.pc = "profile"]}
                     /\ UNCHANGED initialAuthCheckCompleted
           ELSE /\ auth' = guestAuth
                /\ initialAuthCheckCompleted' = FALSE
                /\ pending' = pending \ {f}
        /\ UNCHANGED <<session, data>>

\* the profile lookup of a session refresh returns
HandleRefreshProfile ==
    \E f \in pending, ok \in BOOLEAN, n \in Names :
        /\ f.op = "onAuthStateChange" /\ f.pc = "refresh"
        /\ request' = [op |-> "onAuthStateChange", session |-> f.session]
        /\ IF ok
           THEN /\ auth' = [auth EXCEPT !.currentUser = Some(Profile(f.session[1], n)),
                                        !.isAuthenticated = TRUE]
                /\ pending' = pending \ {f}
           ELSE /\ pending' = (pending \ {f}) \cup {[f EXCEPT !.pc = "logout"]}
                /\ UNCHANGED auth
        /\ UNCHANGED <<session, initialAuthCheckCompleted, data>>

\* fetchConfig and the profile lookup of a first load or login return
HandleProfile ==
    \E f \in pending, ok \in BOOLEAN, n \in Names :
        /\ f.op = "onAuthStateChange" /\ f.pc = "profile"
        /\ request' = [op |-> "onAuthStateChange", session |-> f.session]
        /\ IF ok
           THEN /\ auth' = [currentUser |-> Some(Profile(f.session[1], n)),
                            isAuthenticated |-> TRUE,
                            isInitializing |-> FALSE, isLoggingOut |-> FALSE]
                /\ initialAuthCheckCompleted' = TRUE
                /\ pending' = pending \ {f}
           ELSE /\ pending' = (pending \ {f}) \cup {[f EXCEPT !.pc = "logout"]}
                /\ UNCHANGED <<auth, initialAuthCheckCompleted>>
        /\ UNCHANGED <<session, data>>

\* await api.logoutUser() of the handler returns; the handler returns
HandleLogout ==
    \E f \in pending, ok \in BOOLEAN :
        /\ f.op = "onAuthStateChange" /\ f.pc = "logout"
        /\ signOut(f, ok)
        /\ request' = [op |-> "onAuthStateChange", session |-> f.session]
        /\ UNCHANGED <<auth, initialAuthCheckCompleted, data>>

\* logoutUser, up to its await
logoutUser ==
    /\ ~FullScreenLoader
    /\ auth.isAuthenticated
    /\ auth' = [auth EXCEPT !.isLoggingOut = TRUE]
    /\ pending' = pending \cup {Awaiting("logoutUser", "signOut", NULL, FALSE)}
    /\ request' = [op |-> "logoutUser"]
    /\ UNCHANGED <<session, initialAuthCheckCompleted, data>>

\* logoutUser after its await
logoutUserReturn ==
    \E f \in pending, ok \in BOOLEAN :
        /\ f.op = "logoutUser"
        /\ signOut(f, ok)
        /\ auth' = IF ok THEN auth ELSE [auth EXCEPT !.isLoggingOut = FALSE]
        /\ request' = [op |-> "logoutUser", toast |-> IF ok THEN "none" ELSE "error"]
        /\ UNCHANGED <<initialAuthCheckCompleted, data>>

\* updateCurrentUserName, up to its await
updateCurrentUserName ==
    /\ ~FullScreenLoader
    /\ auth.isAuthenticated
    /\ pending' = pending \cup
          {Awaiting("updateCurrentUserName", "updateUser", NULL, auth.currentUser # NULL)}
    /\ request' = [op |-> "updateCurrentUserName"]
    /\ UNCHANGED <<auth, session, initialAuthCheckCompleted, data>>

\* updateCurrentUserName after its await: the closure's auth.currentUser
\* decides whether the name is written, the state's prev.currentUser is
\* what it is written into
updateCurrentUserNameReturn ==
    \E f \in pending, ok \in BOOLEAN, n \in Names :
        /\ f.op = "updateCurrentUserName"
        /\ pending' = (pending \ {f}) \cup
              (IF ok /\ session # NULL THEN {AuthEvent(session)} ELSE {})
        /\ auth' = IF ok /\ f.hadUser
                    THEN [auth EXCEPT !.currentUser =
                            IF auth.currentUser = NULL THEN Some([name |-> n])
                            ELSE Some([auth.currentUser[1] EXCEPT !.name = n])]
                    ELSE auth
        /\ request' = [op |-> "updateCurrentUserName",
                       toast |-> IF ok THEN "success" ELSE "error"]
        /\ UNCHANGED <<session, initialAuthCheckCompleted, data>>

\* deleteCurrentUserAccount, up to its first await
deleteCurrentUserAccount ==
    /\ ~FullScreenLoader
    /\ auth.isAuthenticated
    /\ auth.currentUser # NULL
    /\ pending' = pending \cup {Awaiting("deleteCurrentUserAccount", "rpc", NULL, TRUE)}
    /\ request' = [op |-> "deleteCurrentUserAccount"]
    /\ UNCHANGED <<auth, session, initialAuthCheckCompleted, data>>

\* delete_own_user_account returns: an error is thrown, caught and shown;
\* otherwise the call goes on to api.logoutUser()
deleteCurrentUserAccountRpc ==
    \E f \in pending, ok \in BOOLEAN :
        /\ f.op = "deleteCurrentUserAccount" /\ f.pc = "rpc"
        /\ pending' = (pending \ {f}) \cup (IF ok THEN {[f EXCEPT !.pc = "signOut"]} ELSE {})
        /\ request' = [op |-> "deleteCurrentUserAccount",
                       toast |-> IF ok THEN "success" ELSE "error"]
        /\ UNCHANGED <<auth, session, initialAuthCheckCompleted, data>>

\* await api.logoutUser() of deleteCurrentUserAccount returns
deleteCurrentUserAccountLogout ==
    \E f \in pending, ok \in BOOLEAN :
        /\ f.op = "deleteCurrentUserAccount" /\ f.pc = "signOut"
        /\ signOut(f, ok)
        /\ request' = [op |-> "deleteCurrentUserAccount", result |-> TRUE]
        /\ UNCHANGED <<auth, initialAuthCheckCompleted, data>>

NextAuth ==
    \/ loginUserWithPassword
    \/ TokenRefreshed
    \/ HandleAuthChange
    \/ HandleRefreshProfile
    \/ HandleProfile
    \/ HandleLogout
    \/ logoutUser
    \/ logoutUserReturn
    \/ updateCurrentUserName
    \/ updateCurrentUserNameReturn
    \/ deleteCurrentUserAccount
    \/ deleteCurrentUserAccountRpc
    \/ deleteCurrentUserAccountLogout

SpecAuth == InitAuth /\ [][NextAuth]_vars

----------------------------------------------------------------------------
(* Properties of the grant status machine *)

Row(id) == grant_applications[id]
LastEntry(h) == h[Len(h)]
IsPrefix(h, g) == Len(h) <= Len(g) /\ SubSeq(g, 1, Len(h)) = h

\* the step just taken served a transition call naming application id
Served(id) == request'.op \in TransitionOps /\ request'.app = id

\* Precondition column of the transition table
Precondition(op) ==
    CASE op \in {"rejectPendingApplication", "makeConditionalOffer"} -> "Pending"
      [] op \in {"acceptConditionalOffer", "declineConditionalOffer"} -> "Conditional Offer"
      [] op = "submitEarlyReport" -> "Early Report Required"
      [] op = "submitFinalReport" -> "Final Report Required"
      [] op \in {"approveEarlyReportAndDisburse", "rejectEarlyReportSubmission"} ->
           "Early Report Submitted"
      [] op \in {"rejectFinalReportSubmission", "completeGrantApplication"} ->
           "Final Report Submitted"

\* C1: in every reachable state, each application's status equals the status
\* of the last entry of its status_history.
C1_StatusIsLastHistory ==
    \A id \in DOMAIN grant_applications :
        /\ Len(Row(id).status_history) > 0
        /\ Row(id).status = LastEntry(Row(id).status_history).status

\* an application that has gone through a rejected early report
C1_Witness ==
    \E id \in DOMAIN grant_applications :
        /\ Len(Row(id).status_history) = 3
        /\ request.op = "rejectEarlyReportSubmission"
        /\ request.app = id

\* C2: a call of an elevated-role transition by an account that is neither
\* administrator nor editor leaves the application table unchanged.
C2_ElevatedOnly ==
    [][(request'.op \in AdminOps /\ ~is_admin_or_editor(request'.caller))
          => grant_applications' = grant_applications]_vars

\* C3: acceptOffer, declineOffer and submitReport called by an account that is
\* not the applicant of the named application leave that application unchanged.
C3_ApplicantOnly ==
    [][\A id \in DOMAIN grant_applications :
          (request'.op \in ApplicantOps /\ request'.app = id
              /\ request'.caller # Row(id).applicant_id)
          => grant_applications'[id] = Row(id)]_vars

\* C4: a transition call changes the application only when the application
\* is in the precondition status of that operation.
C4_FollowsDiagram ==
    [][\A id \in DOMAIN grant_applications :
          (Served(id) /\ grant_applications'[id] # Row(id))
          => Row(id).status = Precondition(request'.op)]_vars

\* C5: once an application is Rejected or Complete no step changes it.
C5_Terminal ==
    [][\A id \in DOMAIN grant_applications :
          Row(id).status \in {"Rejected", "Complete"}
          => grant_applications'[id] = Row(id)]_vars

\* C6: once an amount field has been set, no step writes a different value.
C6_WrittenOnce ==
    [][\A id \in DOMAIN grant_applications :
          /\ Row(id).amount_approved # NULL
                => grant_applications'[id].amount_approved = Row(id).amount_approved
          /\ Row(id).initial_disbursement_amount # NULL
                => grant_applications'[id].initial_disbursement_amount
                      = Row(id).initial_disbursement_amount
          /\ Row(id).final_disbursement_amount # NULL
                => grant_applications'[id].final_disbursement_amount
                      = Row(id).final_disbursement_amount]_vars

\* C7: amount_approved changes only in a makeConditionalOffer call naming the
\* application, initial_disbursement_amount only in approveEarlyReport and
\* final_disbursement_amount only in complete; every other step leaves the
\* three fields as they were.
C7_AmountFrame ==
    [][\A id \in DOMAIN grant_applications :
          /\ grant_applications'[id].amount_approved # Row(id).amount_approved
                => request'.op = "makeConditionalOffer" /\ request'.app = id
          /\ grant_applications'[id].initial_disbursement_amount
                   # Row(id).initial_disbursement_amount
                => request'.op = "approveEarlyReportAndDisburse" /\ request'.app = id
          /\ grant_applications'[id].final_disbursement_amount
                   # Row(id).final_disbursement_amount
                => request'.op = "completeGrantApplication" /\ request'.app = id]_vars

\* an offer was declined and the approved amount is still recorded
C7_Witness ==
    \E id \in DOMAIN grant_applications :
        /\ request.op = "declineConditionalOffer"
        /\ request.app = id
        /\ Row(id).amount_approved # NULL

\* C8: a transition call on an application appends exactly one entry, whose
\* status is the new status, to its status_history; every other step leaves
\* the row as it was, and no step removes a row.
C8_AppendOnly ==
    [][\A id \in DOMAIN grant_applications :
          /\ id \in DOMAIN grant_applications'
          /\ IF Served(id)
             THEN /\ Len(grant_applications'[id].status_history)
                        = Len(Row(id).status_history) + 1
                  /\ IsPrefix(Row(id).status_history,
                              grant_applications'[id].status_history)
                  /\ LastEntry(grant_applications'[id].status_history).status
                        = grant_applications'[id].status
                  /\ LastEntry(grant_applications'[id].status_history).changed_by
                        = request'.caller
             ELSE grant_applications'[id] = Row(id)]_vars

\* a second transition has been appended after a first one
C8_Witness ==
    \E id \in DOMAIN grant_applications :
        /\ Len(Row(id).status_history) = 3
        /\ request.op \in TransitionOps
        /\ request.app = id

\* C9: with the statements of concurrent calls interleaved, every UPDATE that
\* ran on an application has its entry in status_history (one per notification
\* of a committed call plus one per call that has updated and not yet
\* committed), and status is the status of the last entry.
C9_NoLostAppend ==
    \A id \in DOMAIN grant_applications :
        /\ Len(Row(id).status_history)
             = Cardinality({i \in 1..Len(notifications) :
                               notifications[i].related_application_id = id})
               + Cardinality({u \in Users : /\ txns[u].pc = "insert"
                                            /\ txns[u].call.app = id})
        /\ Row(id).status = LastEntry(Row(id).status_history).status

\* a call has updated the row after another call's update landed between
\* its SELECT and its UPDATE
C9_Witness ==
    \E u \in Users :
        /\ txns[u].pc = "insert"
        /\ txns[u].v_row # NULL
        /\ Len(Row(txns[u].call.app).status_history)
              = Len(txns[u].v_row[1].status_history) + 2

\* C10: no step lowers a rejection counter; the early counter changes only in
\* a rejectEarlyReport call naming the application and the final counter only
\* in a rejectFinalReport call, and each such call raises its counter by one.
C10_Counters ==
    [][\A id \in DOMAIN grant_applications :
          LET e == Row(id).early_report_rejection_count
              f == Row(id).final_report_rejection_count
              e2 == grant_applications'[id].early_report_rejection_count
              f2 == grant_applications'[id].final_report_rejection_count
          IN /\ IF request'.op = "rejectEarlyReportSubmission" /\ request'.app = id
                THEN e2 = Some(coalesce(e, 0) + 1)
                ELSE e2 = e
             /\ IF request'.op = "rejectFinalReportSubmission" /\ request'.app = id
                THEN f2 = Some(coalesce(f, 0) + 1)
                ELSE f2 = f
             /\ coalesce(e2, 0) >= coalesce(e, 0)
             /\ coalesce(f2, 0) >= coalesce(f, 0)]_vars

\* an early report has been rejected twice
C10_Witness ==
    \E id \in DOMAIN grant_applications :
        Row(id).early_report_rejection_count = Some(2)

\* C11: a rejectEarlyReport call on an application in Early Report Submitted
\* whose early rejection counter is 0, and a second rejectEarlyReport call
\* that directly follows it on the same application, each leave the status
\* Early Report Required and append one status_history entry; the counter is
\* 1 after the first call and 2 after the second.
C11_TwoRejections ==
    [][\A id \in DOMAIN grant_applications :
          LET h == Row(id).status_history
              e == Row(id).early_report_rejection_count
              first == /\ Row(id).status = "Early Report Submitted"
                       /\ coalesce(e, 0) = 0
              second == /\ request.op = "rejectEarlyReportSubmission"
                        /\ request.app = id
                        /\ e = Some(1)
                        /\ Len(h) >= 2
                        /\ h[Len(h) - 1].status = "Early Report Submitted"
          IN request'.op = "rejectEarlyReportSubmission" /\ request'.app = id
             /\ (first \/ second)
             => /\ grant_applications'[id].status = "Early Report Required"
                /\ grant_applications'[id].early_report_rejection_count
                     = Some(IF first THEN 1 ELSE 2)
                /\ Len(grant_applications'[id].status_history) = Len(h) + 1]_vars

\* the submitted early report has been rejected twice in a row
C11_Witness ==
    \E id \in DOMAIN grant_applications :
        LET h == Row(id).status_history
        IN /\ request.op = "rejectEarlyReportSubmission" /\ request.app = id
           /\ Len(h) = 6
           /\ h[4].status = "Early Report Submitted"
           /\ h[5].status = "Early Report Required"
           /\ h[6].status = "Early Report Required"
           /\ Row(id).status = "Early Report Required"
           /\ Row(id).early_report_rejection_count = Some(2)

\* C12: every grant procedure call that names an existing application adds
\* exactly one notification, whose related_application_id is that application
\* and whose recipient is the applicant's user id for the six admin
\* operations and grant_admins for accept, decline and the report submissions.
C12_OneNotification ==
    [][\A id \in DOMAIN grant_applications :
          Served(id) =>
             /\ Len(notifications') = Len(notifications) + 1
             /\ SubSeq(notifications', 1, Len(notifications)) = notifications
             /\ LastEntry(notifications').related_application_id = id
             /\ LastEntry(notifications').recipient_id =
                   IF request'.op \in AdminOps THEN Row(id).applicant_id
                   ELSE "grant_admins"]_vars

\* an admin operation has notified the applicant, after the applicant's
\* own operation notified grant_admins
C12_Witness ==
    /\ Len(notifications) >= 2
    /\ request.op \in AdminOps
    /\ request.app \in DOMAIN grant_applications
    /\ LastEntry(notifications).recipient_id = Row(request.app).applicant_id
    /\ LastEntry(notifications).related_application_id = request.app
    /\ \E i \in 1..(Len(notifications) - 1) :
          /\ notifications[i].type # "new_app"
          /\ notifications[i].recipient_id = "grant_admins"

\* C13: addGrantApplication by a signed-in account with an id not yet in the
\* table adds one row, owned by the caller, with status Pending and a
\* status_history of the single Pending entry, and adds one notification to
\* grant_admins that refers to the new id; called without a signed-in
\* account it changes neither table.
C13_Submit ==
    [][request'.op = "addGrantApplication" =>
          LET u == request'.caller
              id == request'.app
          IN IF u = Guest
             THEN /\ grant_applications' = grant_applications
                  /\ notifications' = notifications
             ELSE /\ id \notin DOMAIN grant_applications =>
                       /\ DOMAIN grant_applications' = DOMAIN grant_applications \cup {id}
                       /\ \A j \in DOMAIN grant_applications :
                              grant_applications'[j] = grant_applications[j]
                       /\ grant_applications'[id].applicant_id = u
                       /\ grant_applications'[id].status = "Pending"
                       /\ Len(grant_applications'[id].status_history) = 1
                       /\ grant_applications'[id].status_history[1].status = "Pending"
                  /\ notifications' = Append(notifications, LastEntry(notifications'))
                  /\ LastEntry(notifications').recipient_id = "grant_admins"
                  /\ LastEntry(notifications').related_application_id = id]_vars

\* a second application has just been submitted
C13_Witness ==
    /\ request.op = "addGrantApplication"
    /\ request.caller \in Users
    /\ Cardinality(DOMAIN grant_applications) = 2
    /\ Row(request.app).applicant_id = request.caller
    /\ Row(request.app).status_history
         = <<[status |-> "Pending",
              notes |-> <<"Application submitted by applicant.">>,
              changed_by |-> request.caller]>>
    /\ LastEntry(notifications).related_application_id = request.app

\* the global_banner rows of a notifications table, by id
BannerRows(table) ==
    [id \in {i \in DOMAIN table : table[i].recipient_id = "global_banner"} |-> table[id]]

\* C14: when a setSiteBanner call of an Admin or Editor that no other
\* setSiteBanner call overlapped completes, exactly one global_banner row
\* exists; it is a new row carrying the call's message and expires_at, so
\* every banner that existed before is gone, and no other row has changed.
C14_ReplacesBanner ==
    [][\A u \in Accounts :
          /\ sessions[u].pc = "insert" /\ sessions'[u].pc = "done"
          /\ is_admin_or_editor(u)
          /\ ~sessions[u].overlapped
          => LET B == BannerRows(notifications')
             IN /\ Cardinality(DOMAIN B) = 1
                /\ \A id \in DOMAIN B :
                      /\ id \notin DOMAIN notifications
                      /\ B[id].message = sessions[u].message
                      /\ B[id].expires_at = sessions[u].expires_at
                /\ \A id \in DOMAIN notifications \ DOMAIN BannerRows(notifications) :
                      id \in DOMAIN notifications' /\ notifications'[id] = notifications[id]]_vars

\* an Admin's call that nothing overlapped has replaced two earlier banners
C14_Witness ==
    /\ request = [op |-> "setSiteBanner", caller |-> "a1"]
    /\ sessions["a1"].pc = "done"
    /\ BannerInFlight = {}
    /\ next_id = 5
    /\ DOMAIN BannerRows(notifications) = {4}

\* C15: once every setSiteBanner call made by Admins and Editors has
\* completed, and no other account has called it, at most one global_banner
\* row exists.
C15_LastWriteWins ==
    /\ \A u \in Accounts : sessions[u].pc \in {"idle", "done"}
    /\ \A u \in Accounts : ~is_admin_or_editor(u) => sessions[u].pc = "idle"
    => Cardinality(DOMAIN BannerRows(notifications)) <= 1

\* C16: no request of a setSiteBanner call made by an account that is
\* neither Admin nor Editor changes the global_banner rows.
C16_ElevatedOnly ==
    [][\A u \in Accounts :
          ~is_admin_or_editor(u) /\ sessions'[u].pc # sessions[u].pc
          => BannerRows(notifications') = BannerRows(notifications)]_vars

\* C17: a sendGlobalPanelNotification call by an account that is neither
\* Admin nor Editor is answered with an error and leaves the notifications
\* table as it was.
C17_BroadcastDenied ==
    [][request'.op = "sendGlobalPanelNotification"
       /\ ~is_admin_or_editor(request'.caller)
       => /\ request'.error # NULL
          /\ notifications' = notifications]_vars

\* a Tourism Player's broadcast has been refused after an Admin's went out
C17_Witness ==
    /\ request.op = "sendGlobalPanelNotification"
    /\ request.caller = "u1"
    /\ request.error # NULL
    /\ Len(notifications) = 1 + Cardinality(Accounts)

\* C18: a sendGlobalPanelNotification call by an Admin or Editor adds exactly
\* one notification per account of public.users: each account's id is the
\* recipient of exactly one of the new rows, no new row is addressed to
\* anything but an account id, every new row carries the message, and the
\* rows present before are untouched.
C18_FanOut ==
    [][request'.op = "sendGlobalPanelNotification"
       /\ is_admin_or_editor(request'.caller)
       => LET n == Len(notifications)
              new == SubSeq(notifications', n + 1, Len(notifications'))
          IN /\ request'.error = NULL
             /\ SubSeq(notifications', 1, n) = notifications
             /\ Len(new) = Cardinality(Accounts)
             /\ \A u \in Accounts :
                   Cardinality({i \in 1..Len(new) : new[i].recipient_id = u}) = 1
             /\ \A i \in 1..Len(new) :
                   /\ new[i].recipient_id \in Accounts
                   /\ new[i].message = request'.message]_vars

\* an Editor's broadcast of m2 has followed a broadcast of m1
C18_Witness ==
    /\ request.op = "sendGlobalPanelNotification"
    /\ request.caller = "e1"
    /\ request.error = NULL
    /\ Len(notifications) = 1 + 2 * Cardinality(Accounts)
    /\ notifications[2].message = "m1"
    /\ LastEntry(notifications).message = "m2"

\* C19 as stated: the computed set holds a cached notification exactly when
\* the account's id is not in cleared_by and the recipient is the account's
\* id, or admins for an Admin or Editor, or grant_admins for an Admin, or
\* global_banner for anyone.
C19_VisibleSet ==
    \A u \in PanelClients \ {Guest} :
        getNotificationsForCurrentUser(u) =
           {id \in DOMAIN state_notifications[u] :
              LET n == state_notifications[u][id]
              IN /\ u \notin n.cleared_by
                 /\ \/ n.recipient_id = u
                    \/ n.recipient_id = "admins" /\ Role[u] \in {"Admin", "Editor"}
                    \/ n.recipient_id = "grant_admins" /\ Role[u] = "Admin"
                    \/ n.recipient_id = "global_banner"}

\* C19, amended: the computed set holds a cached notification exactly when
\* the account's id is not in cleared_by and the recipient is the account's
\* id, or admins for an Admin or Editor, or grant_admins for an Admin; a
\* global_banner notification is never in the set, and without a signed-in
\* account the set is empty.
C19_PanelSet ==
    /\ getNotificationsForCurrentUser(Guest) = {}
    /\ \A u \in PanelClients \ {Guest} :
          getNotificationsForCurrentUser(u) =
             {id \in DOMAIN state_notifications[u] :
                LET n == state_notifications[u][id]
                IN /\ u \notin n.cleared_by
                   /\ \/ n.recipient_id = u
                      \/ n.recipient_id = "admins" /\ Role[u] \in {"Admin", "Editor"}
                      \/ n.recipient_id = "grant_admins" /\ Role[u] = "Admin"}

\* the Admin sees the two group notifications, the Editor has cleared the
\* admins notification and sees nothing, the applicant sees the personal
\* one, and all three hold the banner in their cache
C19_Witness ==
    /\ getNotificationsForCurrentUser("a1") = {1, 2}
    /\ 2 \in DOMAIN state_notifications["e1"]
    /\ "e1" \in state_notifications["e1"][2].cleared_by
    /\ getNotificationsForCurrentUser("e1") = {}
    /\ getNotificationsForCurrentUser("u1") = {3}
    /\ \A u \in {"a1", "e1", "u1"} : 4 \in DOMAIN state_notifications[u]
    /\ 4 \in DOMAIN state_notifications[Guest]

\* C20: no step removes a user id from the read_by or from the cleared_by
\* of a notification.
C20_OnlyGrow ==
    [][\A id \in DOMAIN notifications :
          /\ id \in DOMAIN notifications'
          /\ notifications[id].read_by \subseteq notifications'[id].read_by
          /\ notifications[id].cleared_by \subseteq notifications'[id].cleared_by]_vars

\* C21: when the store answers a sendGlobalPanelNotification of the client
\* with an error, the client shows the error toast, throws to its caller and
\* does not show the success toast.
C21_FailureSurfaced ==
    request.op = "sendGlobalPanelNotification" /\ request.error # NULL
    => request.toast = "error" /\ request.threw

\* C29: an addGrantApplication or reapplyForGrant call whose insert the store
\* rejects, because the id is already in the table, creates no notification.
C29_NotifyOnlyIfInserted ==
    [][/\ request'.op \in {"addGrantApplication", "reapplyForGrant"}
       /\ request'.caller # Guest
       /\ request'.app \in DOMAIN grant_applications
       => notifications' = notifications]_vars

\* the bucket holds an object under exactly this path
Stored_In(bucket, path) ==
    \E o \in storage :
        o.bucket = bucket /\ Len(o.path) = Len(path) /\ o.path = path

\* C30: every path recorded in early_report_files or final_report_files of
\* an application is the path of an object stored in the bucket of that
\* report type.
C30_RecordedPathStored ==
    \A id \in DOMAIN grant_applications :
        /\ \A i \in 1..Len(Row(id).early_report_files) :
              Stored_In("grant-early-report-files", Row(id).early_report_files[i].path)
        /\ \A i \in 1..Len(Row(id).final_report_files) :
              Stored_In("grant-final-report-files", Row(id).final_report_files[i].path)

\* C28: no user has more than one itinerary row, and a findOrCreateItinerary
\* call returns the id of a row of its user.
C28_OneItinerary ==
    /\ \A u \in ItineraryUsers :
          Cardinality(SelectItineraries(itineraries, u)) <= 1
    /\ request.op \in ItineraryOps
         => request.itineraryId \in SelectItineraries(itineraries, request.caller)

\* a deleteCluster call by an account that may delete the cluster, whose
\* image deletion fails
ImageCleanupFails ==
    /\ request'.op = "deleteCluster"
    /\ request'.cluster \in DOMAIN clusters
    /\ CanDeleteCluster(request'.caller, clusters[request'.cluster])
    /\ request'.imageFailed

\* C24 as stated: when the image deletion of a deleteCluster call fails, the
\* cluster row is deleted all the same, the call returns true, and the
\* failure is only logged: the user is shown nothing.
C24_SilentCleanup ==
    [][ImageCleanupFails
       => /\ request'.cluster \notin DOMAIN clusters'
          /\ request'.result = TRUE
          /\ request'.toast = "none"]_vars

\* C24, amended: when the image deletion of a deleteCluster call fails, the
\* cluster row is deleted all the same, the image stays in the bucket, the
\* call returns true, and the failure is logged and shown to the user as an
\* error toast.
C24_BestEffortCleanup ==
    [][ImageCleanupFails
       => /\ request'.cluster \notin DOMAIN clusters'
          /\ storage' = storage
          /\ request'.result = TRUE
          /\ request'.toast = "error"]_vars

\* the owner deleted cluster c1, its image could not be removed and is
\* still in the bucket
C24_Witness ==
    /\ request.op = "deleteCluster"
    /\ request.cluster = "c1"
    /\ request.caller = "u1"
    /\ request.imageFailed
    /\ request.result = TRUE
    /\ "c1" \notin DOMAIN clusters
    /\ ClusterImage("u1", "c1") \in storage

\* C22: when a failed fetch settles, the client's copy of its collection is
\* empty afterwards, its loading flag is false, and the other collection is
\* as it was.
C22_FailedFetchEmpties ==
    [][\A f \in pending :
          f.pc = "served" /\ ~f.ok /\ [f EXCEPT !.pc = "settled"] \in pending'
          => /\ state'[f.collection] = << >>
             /\ state'[LoadingFlag(f.collection)] = FALSE
             /\ \A k \in Collections \ {f.collection} : state'[k] = state[k]]_vars

\* the fetches of collection k issued so far
FetchesOf(k) == {f \in pending : f.collection = k}

\* C23: while the client stays signed in, once every fetch of a collection
\* has settled and the one issued last got its rows, the client's copy is
\* what that fetch returned.
C23_LatestFetchWins ==
    \A k \in Collections :
        /\ auth.currentUser # NULL
        /\ \A f \in FetchesOf(k) : f.pc = "settled"
        => \A f \in FetchesOf(k) :
              (f.ok /\ \A g \in FetchesOf(k) : g.seq <= f.seq) => state[k] = f.data

\* C25: once the client is signed out, its state holds no grant application
\* and no notification other than the public banners.
C25_NoDataAfterSignOut ==
    auth.currentUser = NULL
    => /\ state.grantApplications = << >>
       /\ \A id \in DOMAIN state.notifications :
             state.notifications[id].recipient_id = "global_banner"

\* C26: whenever no auth event is waiting, no handler is stopped at an await
\* and no call is in flight, neither isInitializing nor isLoggingOut is set:
\* the client does not rest on the full-screen loader.
C26_LoaderCleared ==
    pending = {} => ~auth.isInitializing /\ ~auth.isLoggingOut

\* C27: isAuthenticated is true exactly when currentUser is not null.
C27_AuthenticatedIffUser ==
    auth.isAuthenticated <=> auth.currentUser # NULL

====
